---- MODULE Spec2Model ----
(***************************************************************************)
(* A state-machine model of the wgpu-hello-world renderer: the winit frame *)
(* loop and State of lib.rs, the PhongPass of pass/phong.rs, the           *)
(* UniformPool of pass/mod.rs and the draw helpers of model.rs.  The       *)
(* animation sampler has no source file here; it follows section 4.3 of    *)
(* the design document.                                                    *)
(*                                                                         *)
(* GPU objects are handles <<label, id>>.  The objects made at             *)
(* construction carry id 0 and their own label; every buffer and every     *)
(* bind group the device creates afterwards takes the next id of its kind. *)
(***************************************************************************)
EXTENDS Integers, Sequences, FiniteSets, TLC

\* ------------------------------------------------------------------ bounds
MaxDim == 2          \* window widths and heights range over 0..MaxDim
MaxNodes == 2        \* the scene holds 1..MaxNodes nodes
MaxBuffers == 2      \* the device creates at most MaxBuffers pool buffers
MaxGroups == 2       \* the device creates at most MaxGroups local bind groups
MaxKeys == 3         \* a clip holds 1..MaxKeys timestamps
MaxTime == 3         \* timestamps and elapsed times range over 0..MaxTime
MaxCoord == 3        \* camera coordinates range over -MaxCoord..MaxCoord
MaxSpeed == 2        \* the controller's speed ranges over 1..MaxSpeed
MaxPos == 2          \* cursor positions range over 0..MaxPos
MaxRadius == 2       \* sphere radii range over 1..MaxRadius
MaxSectors == 6      \* sector and stack counts range over 1..MaxSectors
MaxJobs == 3         \* the egui pass is handed 0..MaxJobs paint jobs

\* phong.rs:17
NUM_INSTANCES_PER_ROW == 10

SurfaceErrors == {"Lost", "Outdated", "OutOfMemory", "Timeout"}
AcquireResults == {"Ok"} \cup SurfaceErrors

Handle(label, id) == <<label, id>>
NoHandle == Handle("", 0)

Range(f) == {f[x] : x \in DOMAIN f}

\* What a uniform buffer holds: the struct last written to it, or the zeroes
\* of a buffer created with mapped_at_creation: false and never written.
Content(kind, value) == [kind |-> kind, value |-> value]
Zeroed == Content("zeroed", << >>)

\* ------------------------------------------------------------------ state
VARIABLES
    size,               \* State.size: the last known window size
    config,             \* State.config: the SurfaceConfiguration (width, height)
    surface_config,     \* what the surface was last configured with
    configured,         \* whether the last handler called surface.configure
    control_flow,       \* the event loop: ControlFlow "Poll" or "Exit", or "Panicked"
    redraw_requested,   \* window.request_redraw() is pending
    event_size,         \* the size the last resize event carried (<<0, 0>>: none)
    nodes,              \* the scene: the application's Vec<Node>
    depth_texture,      \* PhongPass.depth_texture: its width and height
    local_bind_groups,  \* PhongPass.local_bind_groups: HashMap<usize, BindGroup>
    groups_created,     \* number of local bind groups the device has created
    buffers,            \* UniformPool.buffers
    buffers_created,    \* number of pool buffers the device has created
    uniforms,           \* the contents of every live uniform buffer, by handle
    pool_call,          \* the last UniformPool call: its arguments and what it queued
    last_call,          \* the handler or method that ran last
    result,             \* what the render or draw of the last handler returned ("None": no call)
    drawn,              \* the node whose model the last draw was handed (0: none)
    commands,           \* the commands the last render or draw recorded
    submitted,          \* whether it submitted its command buffer
    presented,          \* whether it presented the surface image
    steps,              \* what the last handler did, in the order it did it
    timestamps,         \* AnimationClip.timestamps of the sampled clip
    elapsed,            \* the elapsed time last fed to the sampler
    keyframe,           \* the keyframe index the sampler resolved
    keyframes,          \* AnimationClip.keyframes of the clip: "Translation" or "Other"
    camera,             \* Camera: eye, target, up
    controller,         \* CameraController: speed, key flags, mouse state
    moved,              \* which guarded steps the last update_camera applied
    key_event,          \* the last keyboard event and what process_events returned for it
    fresh_press,        \* the right button was pressed and the cursor has not moved since
    sphere,             \* generate_sphere: its arguments, loop counters and output so far
    egui                \* EguiPass::render: its paint jobs and what it recorded

appVars == <<size, config, surface_config, configured, control_flow, redraw_requested,
             event_size>>
sceneVars == <<nodes>>
passVars == <<depth_texture, local_bind_groups, groups_created>>
poolVars == <<buffers, buffers_created, uniforms, pool_call>>
callVars == <<last_call, result, drawn, commands, submitted, presented, steps>>
animVars == <<timestamps, elapsed, keyframe, keyframes>>
camVars == <<camera, controller, moved, key_event, fresh_press>>
genVars == <<sphere>>
eguiVars == <<egui>>
vars == <<appVars, sceneVars, passVars, poolVars, callVars, animVars, camVars, genVars,
          eguiVars>>

\* ------------------------------------------------------------------ model.rs
\* A recorded render-pass command.
Cmd(op, slot, res, indices, instances) ==
    [op |-> op, slot |-> slot, res |-> res, indices |-> indices, instances |-> instances]

\* Mesh j of node k's model: Mesh { vertex_buffer, index_buffer, num_elements, material }.
Mesh(k, j) ==
    [vertex_buffer |-> Handle("vertex_buffer", 10 * k + j),
     index_buffer  |-> Handle("index_buffer", 10 * k + j),
     num_elements  |-> 3 * j,
     material      |-> j]

\* Material j of node k's model: its diffuse texture view.
Material(k, j) == [diffuse_texture |-> Handle("diffuse_texture", 10 * k + j)]

\* The Model of node k: node k has 1 mesh when k is odd and 2 when k is even,
\* and one material per mesh.
Model(k) ==
    LET n == IF k % 2 = 1 THEN 1 ELSE 2
    IN  [meshes    |-> [j \in 1..n |-> Mesh(k, j)],
         materials |-> [j \in 1..n |-> Material(k, j)]]

\* Locals { position, color, .. } of node k.
Locals(k) == [position |-> <<k, 0, 0>>, color |-> <<k, k, k>>]

\* Node { parent, locals, model, instances }: node k carries k instances.
Node(k) == [parent |-> 0, locals |-> Locals(k), model |-> Model(k), instances |-> k]

Scene(n) == [k \in 1..n |-> Node(k)]

\* DrawModel::draw_mesh_instanced
draw_mesh_instanced(mesh, instances, local_bind_group) ==
    << Cmd("set_vertex_buffer", 0, mesh.vertex_buffer, 0, 0),
       Cmd("set_index_buffer", 0, mesh.index_buffer, 0, 0),
       Cmd("set_bind_group", 1, local_bind_group, 0, 0),
       Cmd("draw_indexed", 0, NoHandle, mesh.num_elements, instances) >>

\* DrawModel::draw_model_instanced: one draw_mesh_instanced per mesh, in mesh order.
RECURSIVE draw_meshes(_, _, _, _)
draw_meshes(model, j, instances, local_bind_group) ==
    IF j > Len(model.meshes) THEN << >>
    ELSE draw_mesh_instanced(model.meshes[j], instances, local_bind_group)
         \o draw_meshes(model, j + 1, instances, local_bind_group)

draw_model_instanced(model, instances, local_bind_group) ==
    draw_meshes(model, 1, instances, local_bind_group)

\* ------------------------------------------------------------------ lib.rs
\* A handler that calls neither render nor draw: nothing is acquired,
\* recorded, submitted or presented.
no_call ==
    /\ result' = "None"
    /\ drawn' = 0
    /\ commands' = << >>
    /\ submitted' = FALSE
    /\ presented' = FALSE
    /\ steps' = << >>

\* resize with the guard's && written as ||.
resize_either(new_size) ==
    IF new_size[1] > 0 \/ new_size[2] > 0
    THEN /\ size' = new_size
         /\ config' = new_size
         /\ surface_config' = new_size
         /\ configured' = TRUE
    ELSE /\ UNCHANGED <<size, config, surface_config>>
         /\ configured' = FALSE

\* State::resize
resize(new_size) ==
    IF new_size[1] > 0 /\ new_size[2] > 0
    THEN /\ size' = new_size
         /\ config' = new_size
         /\ surface_config' = new_size
         /\ configured' = TRUE
    ELSE /\ UNCHANGED <<size, config, surface_config>>
         /\ configured' = FALSE

\* The commands State::render records.
render_commands ==
    << Cmd("set_pipeline", 0, Handle("Render Pipeline", 0), 0, 0),
       Cmd("set_bind_group", 0, Handle("diffuse_bind_group", 0), 0, 0),
       Cmd("set_vertex_buffer", 0, Handle("Vertex Buffer", 0), 0, 0),
       Cmd("set_index_buffer", 0, Handle("Index Buffer", 0), 0, 0),
       Cmd("draw_indexed", 0, NoHandle, 10, 1) >>

\* State::render presenting the surface image before it submits.
render_steps_presents_first(acquired) ==
    IF acquired = "Ok"
    THEN <<"get_current_texture", "begin_render_pass", "present", "submit">>
    ELSE <<"get_current_texture">>

\* The order in which State::render acts: the ? on get_current_texture
\* returns before anything is recorded.
render_steps(acquired) ==
    IF acquired = "Ok"
    THEN <<"get_current_texture", "begin_render_pass", "submit", "present">>
    ELSE <<"get_current_texture">>

\* State::render: acquire the surface image (acquired is what
\* get_current_texture returns), record, submit, present.
render(acquired) ==
    /\ result' = acquired
    /\ drawn' = 0
    /\ IF acquired = "Ok"
       THEN /\ commands' = render_commands
            /\ submitted' = TRUE
            /\ presented' = TRUE
       ELSE /\ commands' = << >>
            /\ submitted' = FALSE
            /\ presented' = FALSE

\* WindowEvent::CursorMoved is consumed by State::input, which only recolours
\* State.clear_color; render clears with a fixed colour and never reads it.

\* WindowEvent::Resized
Resized(w, h) ==
    /\ control_flow = "Poll"
    /\ resize(<<w, h>>)
    /\ event_size' = <<w, h>>
    /\ last_call' = "Resized"
    /\ no_call
    /\ UNCHANGED <<control_flow, redraw_requested>>
    /\ UNCHANGED <<sceneVars, passVars, poolVars, animVars, camVars, genVars, eguiVars>>

\* WindowEvent::ScaleFactorChanged
ScaleFactorChanged(w, h) ==
    /\ control_flow = "Poll"
    /\ resize(<<w, h>>)
    /\ event_size' = <<w, h>>
    /\ last_call' = "ScaleFactorChanged"
    /\ no_call
    /\ UNCHANGED <<control_flow, redraw_requested>>
    /\ UNCHANGED <<sceneVars, passVars, poolVars, animVars, camVars, genVars, eguiVars>>

\* WindowEvent::CloseRequested, or Escape pressed
CloseRequested ==
    /\ control_flow = "Poll"
    /\ control_flow' = "Exit"
    /\ configured' = FALSE
    /\ event_size' = <<0, 0>>
    /\ last_call' = "CloseRequested"
    /\ no_call
    /\ UNCHANGED <<size, config, surface_config, redraw_requested>>
    /\ UNCHANGED <<sceneVars, passVars, poolVars, animVars, camVars, genVars, eguiVars>>

\* RedrawRequested with the Lost | Outdated arm only logging, like Timeout.
RedrawRequested_logs(acquired) ==
    /\ control_flow = "Poll"
    /\ redraw_requested
    /\ redraw_requested' = FALSE
    /\ render(acquired)
    /\ steps' = <<"update">> \o render_steps(acquired)
    /\ event_size' = <<0, 0>>
    /\ last_call' = "RedrawRequested"
    /\ control_flow' = IF acquired = "OutOfMemory" THEN "Exit" ELSE control_flow
    /\ configured' = FALSE
    /\ UNCHANGED <<size, config, surface_config>>
    /\ UNCHANGED <<sceneVars, passVars, poolVars, animVars, camVars, genVars, eguiVars>>

\* Event::RedrawRequested: update, render, and the match on render's result.
RedrawRequested(acquired) ==
    /\ control_flow = "Poll"
    /\ redraw_requested
    /\ redraw_requested' = FALSE
    /\ render(acquired)
    /\ steps' = <<"update">> \o render_steps(acquired)
    /\ event_size' = <<0, 0>>
    /\ last_call' = "RedrawRequested"
    /\ CASE acquired = "Ok" ->
                /\ UNCHANGED <<size, config, surface_config, control_flow>>
                /\ configured' = FALSE
         [] acquired \in {"Lost", "Outdated"} ->
                /\ resize(size)
                /\ UNCHANGED control_flow
         [] acquired = "OutOfMemory" ->
                /\ control_flow' = "Exit"
                /\ configured' = FALSE
                /\ UNCHANGED <<size, config, surface_config>>
         [] acquired = "Timeout" ->
                /\ UNCHANGED <<size, config, surface_config, control_flow>>
                /\ configured' = FALSE
    /\ UNCHANGED <<sceneVars, passVars, poolVars, animVars, camVars, genVars, eguiVars>>

\* RedrawEventsCleared without the call of request_redraw.
RedrawEventsCleared_idle ==
    /\ control_flow = "Poll"
    /\ redraw_requested' = redraw_requested
    /\ configured' = FALSE
    /\ event_size' = <<0, 0>>
    /\ last_call' = "RedrawEventsCleared"
    /\ no_call
    /\ UNCHANGED <<size, config, surface_config, control_flow>>
    /\ UNCHANGED <<sceneVars, passVars, poolVars, animVars, camVars, genVars, eguiVars>>

\* Event::RedrawEventsCleared
RedrawEventsCleared ==
    /\ control_flow = "Poll"
    /\ redraw_requested' = TRUE
    /\ configured' = FALSE
    /\ event_size' = <<0, 0>>
    /\ last_call' = "RedrawEventsCleared"
    /\ no_call
    /\ UNCHANGED <<size, config, surface_config, control_flow>>
    /\ UNCHANGED <<sceneVars, passVars, poolVars, animVars, camVars, genVars, eguiVars>>

\* ------------------------------------------------------------------ pass/mod.rs
\* alloc_buffers pushing onto the buffers the pool already holds.
alloc_buffers_appends(count) ==
    buffers \o [i \in 1..count |-> Handle("uniform_pool", buffers_created + i)]

\* UniformPool::alloc_buffers: the buffers the pool holds after the call.
alloc_buffers(count) ==
    [i \in 1..count |-> Handle("uniform_pool", buffers_created + i)]

\* A UniformPool call: op(arg, data), the buffer it queued a write to
\* (NoHandle: none) and whether it returned ("Ok") or panicked ("Panic").
PoolCall(op, arg, data, wrote, outcome) ==
    [op |-> op, arg |-> arg, data |-> data, wrote |-> wrote, outcome |-> outcome]

AllocBuffers(count) ==
    /\ control_flow = "Poll"
    /\ buffers_created + count <= MaxBuffers
    /\ buffers' = alloc_buffers(count)
    /\ buffers_created' = buffers_created + count
    /\ LET kept == DOMAIN uniforms \ Range(buffers)
       IN  uniforms' = [h \in kept \cup Range(buffers') |->
                           IF h \in kept THEN uniforms[h] ELSE Zeroed]
    /\ pool_call' = PoolCall("alloc_buffers", count, 0, NoHandle, "Ok")
    /\ configured' = FALSE
    /\ event_size' = <<0, 0>>
    /\ last_call' = "alloc_buffers"
    /\ no_call
    /\ UNCHANGED <<size, config, surface_config, control_flow, redraw_requested>>
    /\ UNCHANGED <<sceneVars, passVars, animVars, camVars, genVars, eguiVars>>

\* UniformPool::update_uniform: "write" when the call reaches
\* queue.write_buffer with a buffer the pool holds, "panic" when
\* self.buffers[index] is out of bounds, "skip" when the pool is empty.
update_uniform(index) ==
    IF Len(buffers) > 0
    THEN IF index < Len(buffers) THEN "write" ELSE "panic"
    ELSE "skip"

\* update_uniform(index, data) with the Locals of node k as data.  A panic
\* unwinds out of the event loop.
UpdateUniform(index, k) ==
    LET does == update_uniform(index)
        buffer == IF does = "write" THEN buffers[index + 1] ELSE NoHandle
    IN  /\ control_flow = "Poll"
        /\ uniforms' = IF does = "write"
                        THEN [uniforms EXCEPT ![buffer] = Content("Locals", Locals(k))]
                        ELSE uniforms
        /\ pool_call' = PoolCall("update_uniform", index, k, buffer,
                                 IF does = "panic" THEN "Panic" ELSE "Ok")
        /\ control_flow' = IF does = "panic" THEN "Panicked" ELSE control_flow
        /\ configured' = FALSE
        /\ event_size' = <<0, 0>>
        /\ last_call' = "update_uniform"
        /\ no_call
        /\ UNCHANGED <<size, config, surface_config, redraw_requested>>
        /\ UNCHANGED <<buffers, buffers_created>>
        /\ UNCHANGED <<sceneVars, passVars, animVars, camVars, genVars, eguiVars>>

\* ------------------------------------------------------------------ pass/phong.rs
global_bind_group == Handle("[Phong] Globals", 0)
global_uniform_buffer == Handle("[Phong] Globals buffer", 0)
light_buffer == Handle("[Phong] Lights", 0)
local_uniform_buffer == Handle("[Phong] Locals", 0)
instance_buffer == Handle("Instance Buffer", 0)
render_pipeline == Handle("[Phong] Pipeline", 0)

\* The LightUniform PhongPass::new uploads into the light buffer.
light_uniform == [position |-> <<2, 2, 2>>, color |-> <<1, 1, 1>>]

\* The instance buffers the pass holds, each with the number of instances
\* uploaded into it: the one buffer PhongPass::new creates from its grid.
instance_buffers == << [handle |-> Handle("Instance Buffer", 0),
                        len |-> NUM_INSTANCES_PER_ROW * NUM_INSTANCES_PER_ROW] >>

\* PhongPass.instances: the grid built in PhongPass::new
instances == NUM_INSTANCES_PER_ROW * NUM_INSTANCES_PER_ROW

\* The bind group draw creates for its model: binding 0 the pass's local
\* uniform buffer, binding 1 the diffuse texture of the model's first material.
create_bind_group(obj_model) ==
    [handle  |-> Handle("[Phong] Locals", groups_created + 1),
     buffer  |-> local_uniform_buffer,
     texture |-> obj_model.materials[1].diffuse_texture]

\* entry_or_insert written as a plain insert: the group is made anew each call.
entry_insert(obj_model) ==
    [key \in {0} |-> create_bind_group(obj_model)]

\* local_bind_groups.entry(0).or_insert_with(..): the map after the call.
entry_or_insert(obj_model) ==
    IF 0 \in DOMAIN local_bind_groups
    THEN local_bind_groups
    ELSE [key \in {0} |-> create_bind_group(obj_model)]

\* The commands PhongPass::draw records for obj_model, given the bind-group map.
draw_commands(obj_model, groups) ==
    << Cmd("set_vertex_buffer", 1, instance_buffer, 0, 0),
       Cmd("set_pipeline", 0, render_pipeline, 0, 0),
       Cmd("set_bind_group", 0, global_bind_group, 0, 0) >>
    \o draw_model_instanced(obj_model, instances, groups[0].handle)

\* The order in which PhongPass::draw acts.
draw_steps(acquired) ==
    IF acquired = "Ok"
    THEN <<"get_current_texture", "begin_render_pass", "submit", "present">>
    ELSE <<"get_current_texture">>

\* draw with the bind group ensured before the surface image is acquired.
draw_caches_first(k, acquired) ==
    LET obj_model == nodes[k].model
        groups == entry_or_insert(obj_model)
    IN  /\ result' = acquired
        /\ drawn' = k
        /\ groups # local_bind_groups => groups_created < MaxGroups
        /\ local_bind_groups' = groups
        /\ groups_created' = IF groups # local_bind_groups
                              THEN groups_created + 1 ELSE groups_created
        /\ IF acquired = "Ok"
           THEN /\ commands' = draw_commands(obj_model, groups)
                /\ submitted' = TRUE
                /\ presented' = TRUE
           ELSE /\ commands' = << >>
                /\ submitted' = FALSE
                /\ presented' = FALSE
        /\ steps' = draw_steps(acquired)
        /\ UNCHANGED depth_texture

\* PhongPass::draw, handed the model of node k; acquired is what
\* surface.get_current_texture() returns.
draw(k, acquired) ==
    LET obj_model == nodes[k].model
        groups == entry_or_insert(obj_model)
    IN  /\ result' = acquired
        /\ drawn' = k
        /\ IF acquired = "Ok"
           THEN /\ groups # local_bind_groups => groups_created < MaxGroups
                /\ local_bind_groups' = groups
                /\ groups_created' = IF groups # local_bind_groups
                                      THEN groups_created + 1 ELSE groups_created
                /\ commands' = draw_commands(obj_model, groups)
                /\ submitted' = TRUE
                /\ presented' = TRUE
           ELSE /\ UNCHANGED <<local_bind_groups, groups_created>>
                /\ commands' = << >>
                /\ submitted' = FALSE
                /\ presented' = FALSE
        /\ steps' = draw_steps(acquired)
        /\ UNCHANGED depth_texture

\* Draw with the uniform pool allocated anew, one buffer per node, by every draw.
Draw_allocates(k, acquired) ==
    /\ control_flow = "Poll"
    /\ draw(k, acquired)
    /\ configured' = FALSE
    /\ event_size' = <<0, 0>>
    /\ last_call' = "draw"
    /\ IF buffers_created < MaxBuffers + MaxNodes
       THEN /\ buffers' = alloc_buffers(Len(nodes))
            /\ buffers_created' = buffers_created + Len(nodes)
       ELSE UNCHANGED <<buffers, buffers_created>>
    /\ UNCHANGED <<uniforms, pool_call>>
    /\ UNCHANGED <<size, config, surface_config, control_flow, redraw_requested>>
    /\ UNCHANGED <<sceneVars, animVars, camVars, genVars, eguiVars>>

\* WindowEvents::Draw handed to the pass.  Pass::draw is declared over the
\* node list, PhongPass::draw takes one Model: the caller hands it the model
\* of one of its nodes, any of them.
Draw(k, acquired) ==
    /\ control_flow = "Poll"
    /\ draw(k, acquired)
    /\ configured' = FALSE
    /\ event_size' = <<0, 0>>
    /\ last_call' = "draw"
    /\ UNCHANGED <<size, config, surface_config, control_flow, redraw_requested>>
    /\ UNCHANGED <<sceneVars, poolVars, animVars, camVars, genVars, eguiVars>>

\* ------------------------------------------------------------------ animation sampler
\* The scan over the clip's timestamps from position i on: the running
\* keyframe index advances for every timestamp <= t, never past the last index.
RECURSIVE scan(_, _, _, _)
scan(ts, t, i, index) ==
    IF i > Len(ts) THEN index
    ELSE scan(ts, t, i + 1,
              IF ts[i] <= t /\ index < Len(ts) - 1 THEN index + 1 ELSE index)

\* The scan without the stop at the last index.
RECURSIVE scan_uncapped(_, _, _, _)
scan_uncapped(ts, t, i, index) ==
    IF i > Len(ts) THEN index
    ELSE scan_uncapped(ts, t, i + 1, IF ts[i] <= t THEN index + 1 ELSE index)

sample_uncapped(ts, t) == scan_uncapped(ts, t, 1, 0)

\* The scan advancing for every timestamp >= t instead of <= t.
RECURSIVE scan_reversed(_, _, _, _)
scan_reversed(ts, t, i, index) ==
    IF i > Len(ts) THEN index
    ELSE scan_reversed(ts, t, i + 1,
                       IF ts[i] >= t /\ index < Len(ts) - 1 THEN index + 1 ELSE index)

sample_reversed(ts, t) == scan_reversed(ts, t, 1, 0)

\* The scan advancing only for timestamps strictly before t.
RECURSIVE scan_strict(_, _, _, _)
scan_strict(ts, t, i, index) ==
    IF i > Len(ts) THEN index
    ELSE scan_strict(ts, t, i + 1,
                     IF ts[i] < t /\ index < Len(ts) - 1 THEN index + 1 ELSE index)

sample_strict(ts, t) == scan_strict(ts, t, 1, 0)

\* Keyframes::Translation of a clip: one frame (a translation) per timestamp.
Translation(ts) == [i \in DOMAIN ts |-> <<ts[i], 0, 0>>]

\* The keyframe index the sampler resolves for elapsed time t.
sample(ts, t) ==
    scan(ts, t, 1, 0)

\* The animation step writing the sampled frame whatever the keyframes are.
animate_any(ns, kind, ts, index) ==
    [ns EXCEPT ![1].locals.position = Translation(ts)[index + 1]]

\* The animation step on the nodes, for the keyframe index the sampler
\* resolved: node 1 carries the clip, the nodes after it carry none.  Only
\* Translation keyframes update the position of the node's Locals.
animate(ns, kind, ts, index) ==
    IF kind = "Translation"
    THEN [ns EXCEPT ![1].locals.position = Translation(ts)[index + 1]]
    ELSE ns

\* One frame's animation step: the sampler is fed the elapsed time since
\* session start, which never decreases, and the frame it resolves is
\* written to the node.
Sample(t) ==
    /\ t >= elapsed
    /\ elapsed' = t
    /\ keyframe' = sample(timestamps, t)
    /\ nodes' = animate(nodes, keyframes, timestamps, keyframe')
    /\ UNCHANGED <<timestamps, keyframes>>
    /\ UNCHANGED <<appVars, passVars, poolVars, callVars, camVars, genVars, eguiVars>>

\* ------------------------------------------------------------------ camera.rs
\* Points and vectors are triples of integers: the lattice stands for f32
\* space.  Sums, differences, integer multiples, dot and cross products are
\* exact; a quotient rounds toward zero, as the lattice's rounding.
vadd(a, b) == <<a[1] + b[1], a[2] + b[2], a[3] + b[3]>>
vsub(a, b) == <<a[1] - b[1], a[2] - b[2], a[3] - b[3]>>
vmul(a, k) == <<a[1] * k, a[2] * k, a[3] * k>>
dot(a, b) == a[1] * b[1] + a[2] * b[2] + a[3] * b[3]
cross(a, b) ==
    <<a[2] * b[3] - a[3] * b[2], a[3] * b[1] - a[1] * b[3], a[1] * b[2] - a[2] * b[1]>>

quot(a, b) == IF a >= 0 THEN a \div b ELSE -((-a) \div b)
sqrt(n) == CHOOSE r \in 0..n : r * r <= n /\ (r + 1) * (r + 1) > n

\* InnerSpace::magnitude: exact on vectors parallel to an axis.
magnitude(v) == sqrt(dot(v, v))

\* InnerSpace::normalize: exact on vectors parallel to an axis.  (The zero
\* vector has no direction; it is left as it is.)
normalize(v) ==
    LET m == magnitude(v)
    IN  IF m = 0 THEN v ELSE <<quot(v[1], m), quot(v[2], m), quot(v[3], m)>>

\* Camera::build_view_projection_matrix: look_at_rh is determined by the eye,
\* the direction from the eye to the target and up; the projection by fields
\* no handler changes.
build_view_projection_matrix(cam) ==
    <<cam.eye, normalize(vsub(cam.target, cam.eye)), cam.up>>

\* CameraUniform after update_view_proj(camera)
update_view_proj(cam) ==
    [view_position |-> cam.eye, view_proj |-> build_view_projection_matrix(cam)]

\* CameraController::new
CameraController(speed) ==
    [speed |-> speed,
     is_up_pressed |-> FALSE,
     is_modifier_shift_pressed |-> FALSE,
     is_forward_pressed |-> FALSE,
     is_backward_pressed |-> FALSE,
     is_left_pressed |-> FALSE,
     is_right_pressed |-> FALSE,
     is_mouse_right_pressed |-> FALSE,
     is_mouse_right_tracked |-> FALSE,
     mouse_initial_position |-> <<0, 0>>,
     mouse_diff_position |-> <<0, 0>>]

VirtualKeyCodes ==
    {"Space", "LShift", "W", "Up", "A", "Left", "S", "Down", "D", "Right", "Escape"}

\* process_events with the A key moving the camera right.
process_events_swapped(c, is_pressed, virtual_keycode) ==
    CASE virtual_keycode = "Space" -> [c EXCEPT !.is_up_pressed = is_pressed]
      [] virtual_keycode = "LShift" -> [c EXCEPT !.is_modifier_shift_pressed = is_pressed]
      [] virtual_keycode \in {"W", "Up"} -> [c EXCEPT !.is_forward_pressed = is_pressed]
      [] virtual_keycode \in {"Left"} -> [c EXCEPT !.is_left_pressed = is_pressed]
      [] virtual_keycode \in {"S", "Down"} -> [c EXCEPT !.is_backward_pressed = is_pressed]
      [] virtual_keycode \in {"A", "D", "Right"} -> [c EXCEPT !.is_right_pressed = is_pressed]
      [] OTHER -> c

\* CameraController::process_events: the controller after a key event.
process_events(c, is_pressed, virtual_keycode) ==
    CASE virtual_keycode = "Space" -> [c EXCEPT !.is_up_pressed = is_pressed]
      [] virtual_keycode = "LShift" -> [c EXCEPT !.is_modifier_shift_pressed = is_pressed]
      [] virtual_keycode \in {"W", "Up"} -> [c EXCEPT !.is_forward_pressed = is_pressed]
      [] virtual_keycode \in {"A", "Left"} -> [c EXCEPT !.is_left_pressed = is_pressed]
      [] virtual_keycode \in {"S", "Down"} -> [c EXCEPT !.is_backward_pressed = is_pressed]
      [] virtual_keycode \in {"D", "Right"} -> [c EXCEPT !.is_right_pressed = is_pressed]
      [] OTHER -> c

\* CameraController::process_mouse_moved: the cursor position as a fraction
\* of the screen, then the three tracking blocks in order.
process_mouse_moved(c, position, screen_size) ==
    LET current_x == position[1] \div screen_size[1]
        current_y == position[2] \div screen_size[2]
        c1 == IF c.is_mouse_right_pressed /\ ~c.is_mouse_right_tracked
              THEN [c EXCEPT !.mouse_initial_position = <<current_x, current_y>>,
                             !.is_mouse_right_tracked = TRUE]
              ELSE c
        c2 == IF c1.is_mouse_right_pressed /\ c1.is_mouse_right_tracked
              THEN [c1 EXCEPT !.mouse_diff_position =
                                  <<current_x - c1.mouse_initial_position[1],
                                    current_y - c1.mouse_initial_position[2]>>]
              ELSE c1
    IN  IF ~c2.is_mouse_right_pressed /\ c2.is_mouse_right_tracked
        THEN [c2 EXCEPT !.is_mouse_right_tracked = FALSE]
        ELSE c2

MouseButtons == {"Left", "Right", "Middle"}

\* CameraController::process_mouse_input
process_mouse_input(c, is_pressed, button) ==
    IF button = "Right" THEN [c EXCEPT !.is_mouse_right_pressed = is_pressed] ELSE c

\* update_camera's forward step without the forward_mag > speed guard.
step_forward_unguarded(c, cam) ==
    LET forward == vsub(cam.target, cam.eye)
    IN  IF c.is_forward_pressed
        THEN vadd(cam.eye, vmul(normalize(forward), c.speed))
        ELSE cam.eye

\* update_camera's forward step with the guard forward_mag >= speed.
step_forward_reaches(c, cam) ==
    LET forward == vsub(cam.target, cam.eye)
    IN  IF c.is_forward_pressed /\ magnitude(forward) >= c.speed
        THEN vadd(cam.eye, vmul(normalize(forward), c.speed))
        ELSE cam.eye

\* update_camera, the forward step: the eye after it.
step_forward(c, cam) ==
    LET forward == vsub(cam.target, cam.eye)
    IN  IF c.is_forward_pressed /\ magnitude(forward) > c.speed
        THEN vadd(cam.eye, vmul(normalize(forward), c.speed))
        ELSE cam.eye

\* update_camera's right step leaving the target where it is.
step_right_eye_only(c, cam, forward, right) ==
    IF c.is_right_pressed
    THEN [cam EXCEPT !.eye = vsub(cam.target, vsub(forward, vmul(right, c.speed)))]
    ELSE cam

\* update_camera, is_right_pressed: the eye is placed from the target, then
\* the target is moved.
step_right(c, cam, forward, right) ==
    IF c.is_right_pressed
    THEN [cam EXCEPT !.eye = vsub(cam.target, vsub(forward, vmul(right, c.speed))),
                     !.target = vadd(cam.target, vmul(right, c.speed))]
    ELSE cam

\* update_camera, is_left_pressed
step_left(c, cam, forward, right) ==
    IF c.is_left_pressed
    THEN [cam EXCEPT !.eye = vsub(cam.target, vadd(forward, vmul(right, c.speed))),
                     !.target = vsub(cam.target, vmul(right, c.speed))]
    ELSE cam

\* The up step moving the eye and leaving the target where it is.
step_up_eye_only(c, cam, forward) ==
    IF c.is_up_pressed
    THEN IF c.is_modifier_shift_pressed
         THEN [cam EXCEPT !.eye = vsub(cam.target, vadd(forward, vmul(cam.up, c.speed)))]
         ELSE [cam EXCEPT !.eye = vsub(cam.target, vsub(forward, vmul(cam.up, c.speed)))]
    ELSE cam

\* update_camera, is_up_pressed with and without is_modifier_shift_pressed
step_up(c, cam, forward) ==
    LET down == IF c.is_modifier_shift_pressed /\ c.is_up_pressed
                THEN [cam EXCEPT
                        !.eye = vsub(cam.target, vadd(forward, vmul(cam.up, c.speed))),
                        !.target = vsub(cam.target, vmul(cam.up, c.speed))]
                ELSE cam
    IN  IF ~c.is_modifier_shift_pressed /\ c.is_up_pressed
        THEN [down EXCEPT
                !.eye = vsub(down.target, vsub(forward, vmul(down.up, c.speed))),
                !.target = vadd(down.target, vmul(down.up, c.speed))]
        ELSE down

\* update_camera, is_mouse_right_tracked
step_mouse(c, cam, forward, right) ==
    IF c.is_mouse_right_tracked
    THEN [cam EXCEPT !.eye = vsub(cam.target,
                                  vadd(forward, vmul(right, c.mouse_diff_position[1])))]
    ELSE cam

\* CameraController::update_camera: the camera after the call.
update_camera(c, cam) ==
    LET forward_norm == normalize(vsub(cam.target, cam.eye))
        eye1 == step_forward(c, cam)
        eye2 == IF c.is_backward_pressed
                THEN vsub(eye1, vmul(forward_norm, c.speed))
                ELSE eye1
        right == cross(forward_norm, cam.up)
        forward == vsub(cam.target, eye2)
        cam2 == [cam EXCEPT !.eye = eye2]
        cam3 == step_right(c, cam2, forward, right)
        cam4 == step_left(c, cam3, forward, right)
        cam5 == step_up(c, cam4, forward)
    IN  step_mouse(c, cam5, forward, right)

\* The conditional steps of update_camera that the call takes.
applied(c, cam) ==
    { step \in {"forward", "backward", "right", "left", "up", "mouse"} :
        CASE step = "forward" -> step_forward(c, cam) # cam.eye
          [] step = "backward" -> c.is_backward_pressed
          [] step = "right" -> c.is_right_pressed
          [] step = "left" -> c.is_left_pressed
          [] step = "up" -> c.is_up_pressed
          [] step = "mouse" -> c.is_mouse_right_tracked }

\* A camera handler is no window handler: it configures, renders and draws
\* nothing.
camera_call(name) ==
    /\ control_flow = "Poll"
    /\ configured' = FALSE
    /\ event_size' = <<0, 0>>
    /\ last_call' = name
    /\ no_call
    /\ UNCHANGED <<size, config, surface_config, control_flow, redraw_requested>>
    /\ UNCHANGED <<sceneVars, passVars, poolVars, animVars, genVars, eguiVars>>

\* CameraController::process_events: what it returns.
process_events_returns(virtual_keycode) ==
    virtual_keycode \in {"Space", "LShift", "W", "Up", "A", "Left", "S", "Down", "D", "Right"}

KeyEvent(virtual_keycode, is_pressed, returned) ==
    [virtual_keycode |-> virtual_keycode, is_pressed |-> is_pressed, returned |-> returned]
NoKeyEvent == KeyEvent("", FALSE, FALSE)

\* process_events on a key event, in a session that goes on to update the
\* camera: the event itself is not kept.
ProcessEvents(is_pressed, virtual_keycode) ==
    /\ controller' = process_events(controller, is_pressed, virtual_keycode)
    /\ moved' = {}
    /\ key_event' = NoKeyEvent
    /\ UNCHANGED <<camera, fresh_press>>
    /\ camera_call("process_events")

\* process_events on a key event, with the event and the value returned to
\* the caller kept.
KeyboardInput(is_pressed, virtual_keycode) ==
    /\ controller' = process_events(controller, is_pressed, virtual_keycode)
    /\ moved' = {}
    /\ key_event' = KeyEvent(virtual_keycode, is_pressed,
                             process_events_returns(virtual_keycode))
    /\ UNCHANGED <<camera, fresh_press>>
    /\ camera_call("process_events")

\* A CursorMoved event handed to the controller.
ProcessMouseMoved(position, screen_size) ==
    /\ controller' = process_mouse_moved(controller, position, screen_size)
    /\ moved' = {}
    /\ fresh_press' = FALSE
    /\ key_event' = NoKeyEvent
    /\ UNCHANGED camera
    /\ camera_call("process_mouse_moved")

\* A MouseInput event handed to the controller.
ProcessMouseInput(is_pressed, button) ==
    /\ controller' = process_mouse_input(controller, is_pressed, button)
    /\ moved' = {}
    /\ fresh_press' = IF button = "Right"
                      THEN is_pressed /\ (fresh_press \/ ~controller.is_mouse_right_pressed)
                      ELSE fresh_press
    /\ key_event' = NoKeyEvent
    /\ UNCHANGED camera
    /\ camera_call("process_mouse_input")

InBox(p) == \A i \in 1..3 : p[i] \in -MaxCoord..MaxCoord

\* The per-frame update_camera; the camera stays inside the box of
\* coordinates -MaxCoord..MaxCoord.
UpdateCamera ==
    /\ camera' = update_camera(controller, camera)
    /\ InBox(camera'.eye)
    /\ InBox(camera'.target)
    /\ moved' = applied(controller, camera)
    /\ UNCHANGED <<controller, key_event, fresh_press>>
    /\ camera_call("update_camera")

\* ------------------------------------------------------------------ primitives/sphere.rs
\* The ModelVertex pushed at stack step i and sector step j: its position and
\* normal are computed from the radius and the two steps' angles, its texture
\* coordinates are the integer quotients j / sector_count and i / stack_count.
ModelVertex(radius, sector_count, stack_count, i, j) ==
    [position |-> <<radius, i, j>>,
     normal |-> <<i, j>>,
     tex_coords |-> <<j \div sector_count, i \div stack_count>>]

\* The inner loop of the vertex loop, from sector step j on.
RECURSIVE vertex_row(_, _, _, _, _)
vertex_row(radius, sector_count, stack_count, i, j) ==
    IF j >= sector_count + 1 THEN << >>
    ELSE <<ModelVertex(radius, sector_count, stack_count, i, j)>>
         \o vertex_row(radius, sector_count, stack_count, i, j + 1)

\* The vertex loop, from stack step i on: for i in 0..(stack_count + 1).
RECURSIVE vertex_rows(_, _, _, _)
vertex_rows(radius, sector_count, stack_count, i) ==
    IF i >= stack_count + 1 THEN << >>
    ELSE vertex_row(radius, sector_count, stack_count, i, 0)
         \o vertex_rows(radius, sector_count, stack_count, i + 1)

\* The inner loop of the index loop, from sector step j on, k1 and k2 being
\* the running top and bottom vertex.
RECURSIVE index_row(_, _, _, _, _, _)
index_row(sector_count, stack_count, i, j, k1, k2) ==
    IF j >= sector_count + 1 THEN << >>
    ELSE (IF i # 0 THEN <<k1, k2, k1 + 1>> ELSE << >>)
         \o (IF i # stack_count - 1 THEN <<k1 + 1, k2, k2 + 1>> ELSE << >>)
         \o index_row(sector_count, stack_count, i, j + 1, k1 + 1, k2 + 1)

\* The index loop, from stack step i on: for i in 0..(stack_count + 1).
RECURSIVE index_rows(_, _, _)
index_rows(sector_count, stack_count, i) ==
    IF i >= stack_count + 1 THEN << >>
    ELSE index_row(sector_count, stack_count, i, 0,
                   i * (sector_count + 1), i * (sector_count + 1) + (sector_count + 1))
         \o index_rows(sector_count, stack_count, i + 1)

\* generate_sphere(radius, sector_count, stack_count)
generate_sphere(radius, sector_count, stack_count) ==
    [vertices |-> vertex_rows(radius, sector_count, stack_count, 0),
     indices |-> index_rows(sector_count, stack_count, 0)]

\* What is known of a call of generate_sphere: its arguments and, once it
\* has returned, its result.
SphereCall(radius, sector_count, stack_count, returned, vertices, indices) ==
    [radius |-> radius, sector_count |-> sector_count, stack_count |-> stack_count,
     returned |-> returned, vertices |-> vertices, indices |-> indices]

GenerateSphere ==
    /\ ~sphere.returned
    /\ LET out == generate_sphere(sphere.radius, sphere.sector_count, sphere.stack_count)
       IN  sphere' = [sphere EXCEPT !.returned = TRUE,
                                    !.vertices = out.vertices,
                                    !.indices = out.indices]
    /\ UNCHANGED <<appVars, sceneVars, passVars, poolVars, callVars, animVars, camVars,
                   eguiVars>>

\* ------------------------------------------------------------------ pass/egui.rs
\* An egui::ClippedPrimitive as render reads it: a Mesh or a Callback, whether
\* its clip rectangle has zero width or height on screen, a mesh's texture
\* id, whether a callback downcasts to CallbackFn and whether its rect is
\* positive.
ClippedPrimitive(primitive, clip_zero, texture_id, is_callback_fn, rect_positive) ==
    [primitive |-> primitive, clip_zero |-> clip_zero, texture_id |-> texture_id,
     is_callback_fn |-> is_callback_fn, rect_positive |-> rect_positive]

Primitives ==
    {ClippedPrimitive("Mesh", z, 0, FALSE, FALSE) : z \in BOOLEAN}
    \cup {ClippedPrimitive("Callback", z, 0, f, r) : z, f, r \in BOOLEAN}

\* A command render records on the render pass while it processes paint job
\* n (0: after the loop), and the slice or bind group it carries.
PassCmd(op, n, res) == [op |-> op, job |-> n, res |-> res]

\* EguiPass::new: both slice lists and the texture map start empty.
EguiPass(paint_jobs) ==
    [index_slices |-> << >>, vertex_slices |-> << >>, textures |-> {},
     paint_jobs |-> paint_jobs, rendered |-> FALSE, needs_reset |-> TRUE,
     index_taken |-> 0, vertex_taken |-> 0, panicked |-> FALSE, commands |-> << >>]

\* index_buffer_slices.next().unwrap(); vertex_buffer_slices.next().unwrap():
\* each iterator advances by one, and unwrap panics on an exhausted one.
next_slices(st) ==
    IF st.index_taken >= Len(st.index_slices) THEN [st EXCEPT !.panicked = TRUE]
    ELSE IF st.vertex_taken >= Len(st.vertex_slices)
         THEN [st EXCEPT !.index_taken = @ + 1, !.panicked = TRUE]
         ELSE [st EXCEPT !.index_taken = @ + 1, !.vertex_taken = @ + 1]

\* The head of the loop body: the viewport, the pipeline and bind group 0
\* are set when needs_reset is up.
reset_pass(st, n) ==
    IF st.needs_reset
    THEN [st EXCEPT !.commands = @ \o << PassCmd("set_viewport", n, "screen"),
                                         PassCmd("set_pipeline", n, "pipeline"),
                                         PassCmd("set_bind_group_0", n, "uniform_bind_group") >>,
                    !.needs_reset = FALSE]
    ELSE st

\* The Primitive::Mesh arm.
render_mesh(st, job, n) ==
    LET taken == next_slices(st)
    IN  IF taken.panicked THEN taken
        ELSE IF job.texture_id \in taken.textures
             THEN [taken EXCEPT !.commands = @ \o
                     << PassCmd("set_bind_group_1", n, job.texture_id),
                        PassCmd("set_index_buffer", n, taken.index_slices[taken.index_taken]),
                        PassCmd("set_vertex_buffer", n, taken.vertex_slices[taken.vertex_taken]),
                        PassCmd("draw_indexed", n, 1) >>]
             ELSE taken

\* The Primitive::Callback arm.
render_callback(st, job, n) ==
    IF ~job.is_callback_fn THEN st
    ELSE IF job.rect_positive
         THEN [st EXCEPT !.needs_reset = TRUE,
                         !.commands = @ \o << PassCmd("set_viewport", n, "callback"),
                                              PassCmd("paint", n, "callback") >>]
         ELSE st

\* One turn of the loop over paint_jobs.
render_job(st, job, n) ==
    LET head == reset_pass(st, n)
    IN  IF job.clip_zero
        THEN IF job.primitive = "Mesh" THEN next_slices(head) ELSE head
        ELSE LET clipped ==
                    [head EXCEPT !.commands = @ \o << PassCmd("set_scissor_rect", n, "clip") >>]
             IN  IF job.primitive = "Mesh" THEN render_mesh(clipped, job, n)
                 ELSE render_callback(clipped, job, n)

\* The loop over paint_jobs from job n on; a panic ends the call.
RECURSIVE render_jobs(_, _)
render_jobs(st, n) ==
    IF st.panicked \/ n > Len(st.paint_jobs) THEN st
    ELSE render_jobs(render_job(st, st.paint_jobs[n], n), n + 1)

\* EguiPass::render
egui_render(pass) ==
    LET st == render_jobs(pass, 1)
    IN  IF st.panicked THEN [st EXCEPT !.rendered = TRUE]
        ELSE [st EXCEPT !.rendered = TRUE,
                        !.commands = @ \o << PassCmd("set_scissor_rect", 0, "screen") >>]

EguiRender ==
    /\ ~egui.rendered
    /\ egui' = egui_render(egui)
    /\ UNCHANGED <<appVars, sceneVars, passVars, poolVars, callVars, animVars, camVars,
                   genVars>>

\* ------------------------------------------------------------------ specifications
Dims == 1..MaxDim
Times == 0..MaxTime

\* Keyframe timestamps are times on the clip's timeline, in time order.
Clips ==
    { ts \in UNION {[1..n -> Times] : n \in 1..MaxKeys} :
        \A i \in 1..(Len(ts) - 1) : ts[i] <= ts[i + 1] }

\* After State::new and PhongPass::new, for a scene of n nodes: the surface
\* is configured with the window's size, the depth texture has the
\* configuration's size, the bind-group cache and the uniform pool are empty.
Constructed(n) ==
    /\ size \in Dims \X Dims
    /\ config = size
    /\ surface_config = size
    /\ configured = TRUE
    /\ control_flow = "Poll"
    /\ redraw_requested = TRUE
    /\ event_size = <<0, 0>>
    /\ nodes = Scene(n)
    /\ depth_texture = size
    /\ local_bind_groups = << >>
    /\ groups_created = 0
    /\ buffers = << >>
    /\ buffers_created = 0
    /\ uniforms = [h \in {global_uniform_buffer, local_uniform_buffer, light_buffer} |->
                      IF h = light_buffer THEN Content("LightUniform", light_uniform)
                      ELSE Zeroed]
    /\ pool_call = PoolCall("new", 0, 0, NoHandle, "Ok")
    /\ last_call = "new"
    /\ result = "None"
    /\ drawn = 0
    /\ commands = << >>
    /\ submitted = FALSE
    /\ presented = FALSE
    /\ steps = << >>

\* A clip loaded and sampled at elapsed time 0.
Loaded(ts) ==
    /\ timestamps = ts
    /\ elapsed = 0
    /\ keyframe = sample(ts, 0)

\* No call of generate_sphere yet, and an egui pass with nothing to paint.
NoSphere == SphereCall(1, 1, 1, FALSE, << >>, << >>)
Unused == keyframes = "Translation" /\ sphere = NoSphere /\ egui = EguiPass(<< >>)

\* A camera at distance d from its target, up the y axis, and a controller
\* of the given speed.
CameraNew(d, speed) ==
    /\ camera = [eye |-> <<0, 0, d>>, target |-> <<0, 0, 0>>, up |-> <<0, 1, 0>>]
    /\ controller = CameraController(speed)
    /\ moved = {}
    /\ key_event = NoKeyEvent
    /\ fresh_press = FALSE

\* The event loop of lib.rs: run() dispatching window events to State.
Init == Constructed(1) /\ Loaded(<<0>>) /\ CameraNew(1, 1) /\ Unused

Next ==
    \/ \E w \in 0..MaxDim, h \in 0..MaxDim : Resized(w, h)
    \/ \E w \in 0..MaxDim, h \in 0..MaxDim : ScaleFactorChanged(w, h)
    \/ CloseRequested
    \/ \E acquired \in AcquireResults : RedrawRequested(acquired)
    \/ RedrawEventsCleared

Spec == Init /\ [][Next]_vars

\* The event loop as winit drives it under ControlFlow::Poll: every turn of
\* the loop ends with RedrawEventsCleared, and a requested redraw is
\* delivered as RedrawRequested.
SpecLive ==
    /\ Init
    /\ [][Next]_vars
    /\ WF_vars(RedrawEventsCleared)
    /\ WF_vars(\E acquired \in AcquireResults : RedrawRequested(acquired))

\* The Phong pass and its uniform pool, drawing into the resizable surface.
InitPass ==
    /\ size = <<1, 1>>
    /\ \E n \in 1..MaxNodes : Constructed(n)
    /\ Loaded(<<0>>)
    /\ CameraNew(1, 1)
    /\ Unused

NextPass ==
    \/ \E w \in 0..MaxDim, h \in 0..MaxDim : Resized(w, h)
    \/ \E count \in 0..MaxNodes : AllocBuffers(count)
    \/ \E k \in 1..Len(nodes), acquired \in AcquireResults : Draw(k, acquired)

SpecPass == InitPass /\ [][NextPass]_vars

\* The animation sampler over every clip, fed non-decreasing elapsed times.
InitAnim ==
    /\ size = <<1, 1>>
    /\ \E n \in 1..MaxNodes : Constructed(n)
    /\ \E ts \in Clips : Loaded(ts)
    /\ keyframes \in {"Translation", "Other"}
    /\ CameraNew(1, 1)
    /\ sphere = NoSphere
    /\ egui = EguiPass(<< >>)

NextAnim == \E t \in Times : Sample(t)

SpecAnim == InitAnim /\ [][NextAnim]_vars

\* The uniform pool on its own: allocations and uniform updates.
InitPool == Constructed(MaxNodes) /\ Loaded(<<0>>) /\ CameraNew(1, 1) /\ Unused

NextPool ==
    \/ \E count \in 0..MaxBuffers : AllocBuffers(count)
    \/ \E index \in 0..MaxBuffers, k \in 1..MaxNodes : UpdateUniform(index, k)

SpecPool == InitPool /\ [][NextPool]_vars

\* The camera controller under keyboard input, updated every frame.
InitCamera ==
    /\ size = <<1, 1>>
    /\ Constructed(1)
    /\ Loaded(<<0>>)
    /\ \E d \in 1..MaxCoord, speed \in 1..MaxSpeed : CameraNew(d, speed)
    /\ Unused

NextCamera ==
    \/ \E is_pressed \in BOOLEAN, key \in VirtualKeyCodes : ProcessEvents(is_pressed, key)
    \/ UpdateCamera

SpecCamera == InitCamera /\ [][NextCamera]_vars

\* The camera controller under mouse input, updated every frame.
InitMouse ==
    /\ size = <<1, 1>>
    /\ Constructed(1)
    /\ Loaded(<<0>>)
    /\ \E d \in 1..MaxCoord : CameraNew(d, 1)
    /\ Unused

NextMouse ==
    \/ \E is_pressed \in BOOLEAN, button \in MouseButtons :
            ProcessMouseInput(is_pressed, button)
    \/ \E x \in 0..MaxPos, y \in 0..1, screen_size \in Dims \X Dims :
            ProcessMouseMoved(<<x, y>>, screen_size)
    \/ UpdateCamera

SpecMouse == InitMouse /\ [][NextMouse]_vars

\* One frame after another: the loop of lib.rs and the pass's draw.
InitFrame ==
    /\ \E n \in 1..MaxNodes : Constructed(n)
    /\ Loaded(<<0>>)
    /\ CameraNew(1, 1)
    /\ Unused

NextFrame ==
    \/ RedrawEventsCleared
    \/ \E acquired \in AcquireResults : RedrawRequested(acquired)
    \/ \E k \in 1..Len(nodes), acquired \in AcquireResults : Draw(k, acquired)

SpecFrame == InitFrame /\ [][NextFrame]_vars

\* The key handler on its own: every key, pressed and released.
InitKeys == size = <<1, 1>> /\ Constructed(1) /\ Loaded(<<0>>) /\ CameraNew(1, 1) /\ Unused

NextKeys ==
    \E is_pressed \in BOOLEAN, key \in VirtualKeyCodes : KeyboardInput(is_pressed, key)

SpecKeys == InitKeys /\ [][NextKeys]_vars

\* generate_sphere over every radius, sector count and stack count.
InitSphere ==
    /\ size = <<1, 1>>
    /\ Constructed(1)
    /\ Loaded(<<0>>)
    /\ CameraNew(1, 1)
    /\ keyframes = "Translation"
    /\ \E radius \in 1..MaxRadius, sector_count \in 1..MaxSectors, stack_count \in 1..MaxSectors :
            sphere = SphereCall(radius, sector_count, stack_count, FALSE, << >>, << >>)
    /\ egui = EguiPass(<< >>)

NextSphere == GenerateSphere

SpecSphere == InitSphere /\ [][NextSphere]_vars

\* EguiPass::render over every list of paint jobs.
InitEgui ==
    /\ size = <<1, 1>>
    /\ Constructed(1)
    /\ Loaded(<<0>>)
    /\ CameraNew(1, 1)
    /\ keyframes = "Translation"
    /\ sphere = NoSphere
    /\ \E paint_jobs \in UNION {[1..n -> Primitives] : n \in 0..MaxJobs} :
            egui = EguiPass(paint_jobs)

NextEgui == EguiRender

SpecEgui == InitEgui /\ [][NextEgui]_vars

\* ------------------------------------------------------------------ properties
\* The resource the last command op on slot before position i of the
\* recorded commands has bound (NoHandle: none).
BoundAt(op, slot, i) ==
    LET js == {j \in 1..(i - 1) : commands[j].op = op /\ commands[j].slot = slot}
    IN  IF js = {} THEN NoHandle
        ELSE commands[CHOOSE j \in js : \A l \in js : l <= j].res

\* Command i is an indexed draw of a mesh of node k.
DrawsNodeAt(k, i) ==
    /\ commands[i].op = "draw_indexed"
    /\ \E j \in DOMAIN nodes[k].model.meshes :
          BoundAt("set_vertex_buffer", 0, i) = nodes[k].model.meshes[j].vertex_buffer

DrawSucceeded == last_call = "draw" /\ result = "Ok"

\* C1: after every successful PhongPass draw over a node list of N nodes,
\* the uniform pool holds at least N buffers.
C1_PoolHoldsNodes ==
    DrawSucceeded => Len(buffers) >= Len(nodes)

\* C2: the local bind group of a node index is created at most once, a draw
\* that finds the index cached reuses the cached group and creates none, and
\* no draw creates an instance buffer: each binds the one made at construction.
C2_CreatedOnce ==
    /\ [](groups_created <= Cardinality(DOMAIN local_bind_groups))
    /\ [][(last_call' = "draw" /\ result' = "Ok")
            => /\ commands'[1] = Cmd("set_vertex_buffer", 1, instance_buffer, 0, 0)
               /\ 0 \in DOMAIN local_bind_groups
                    => /\ local_bind_groups' = local_bind_groups
                       /\ groups_created' = groups_created]_vars

\* A successful draw that found index 0 cached: the cached group was made
\* for another node's model.
C2_Witness ==
    /\ DrawSucceeded
    /\ groups_created = 1
    /\ local_bind_groups[0].texture # nodes[drawn].model.materials[1].diffuse_texture

\* C3: in every draw over at least two nodes, the light pipeline is bound and
\* node index 1 (the second node) is drawn before the lit pipeline is bound,
\* and after the lit pipeline is bound every node is drawn.
C3_LightBeforeLit ==
    (DrawSucceeded /\ Len(nodes) >= 2) =>
        \E lit \in DOMAIN commands :
            /\ commands[lit] = Cmd("set_pipeline", 0, render_pipeline, 0, 0)
            /\ \E l \in 1..(lit - 1), d \in 1..(lit - 1) :
                  /\ l < d
                  /\ commands[l] = Cmd("set_pipeline", 0, Handle("Light Pipeline", 0), 0, 0)
                  /\ DrawsNodeAt(2, d)
            /\ \A k \in DOMAIN nodes :
                  \E d \in (lit + 1)..Len(commands) : DrawsNodeAt(k, d)

C5_SurfaceErrors ==
    [][last_call' = "RedrawRequested" =>
          /\ result' \in {"Lost", "Outdated"} =>
                /\ configured'
                /\ surface_config' = size
                /\ UNCHANGED <<size, control_flow>>
          /\ result' = "OutOfMemory" => control_flow' = "Exit"
          /\ result' = "Timeout" =>
                /\ ~configured'
                /\ UNCHANGED <<size, config, surface_config, control_flow>>
                /\ UNCHANGED <<passVars, poolVars>>]_vars

\* A frame that failed with Lost after the window had been resized.
C5_Witness ==
    /\ last_call = "RedrawRequested"
    /\ result = "Lost"
    /\ configured
    /\ control_flow = "Poll"
    /\ surface_config = <<MaxDim, 1>>

\* C6: a draw whose surface acquisition fails records nothing, creates and
\* caches no bind group or buffer, submits nothing and presents nothing: the
\* pass state after the call is the pass state before it.
C6_FailedDrawChangesNothing ==
    [][(last_call' = "draw" /\ result' # "Ok") =>
          /\ UNCHANGED <<passVars, poolVars>>
          /\ commands' = << >>
          /\ ~submitted'
          /\ ~presented']_vars

\* A failed draw on a pass whose cache already holds a bind group.
C6_Witness ==
    /\ last_call = "draw"
    /\ result \in SurfaceErrors
    /\ 0 \in DOMAIN local_bind_groups

\* C7: resize(w, h) with w > 0 and h > 0 sets the stored size and the surface
\* configuration to (w, h) and reconfigures the surface; with w = 0 or h = 0
\* it changes neither and does not reconfigure.
C7_Resize ==
    [][last_call' \in {"Resized", "ScaleFactorChanged"} =>
          IF event_size'[1] > 0 /\ event_size'[2] > 0
          THEN /\ size' = event_size'
               /\ config' = event_size'
               /\ surface_config' = event_size'
               /\ configured'
          ELSE /\ UNCHANGED <<size, config, surface_config>>
               /\ ~configured']_vars

\* A resize with one zero dimension that left another size in place.
C7_Witness ==
    /\ last_call = "Resized"
    /\ event_size = <<0, MaxDim>>
    /\ size = <<MaxDim, 1>>
    /\ ~configured

\* C8: after any sequence of resize events, when the next draw begins the
\* depth texture has the surface configuration's width and height.
C8_DepthMatchesSurface ==
    depth_texture = config

\* C9: fed non-decreasing elapsed times, the sampler's keyframe index never
\* decreases and never exceeds timestamps.len() - 1.
C9_Monotone ==
    /\ [](keyframe <= Len(timestamps) - 1)
    /\ [][elapsed' >= elapsed => keyframe' >= keyframe]_vars

\* The index advanced to the last keyframe of a clip of MaxKeys timestamps.
C9_Witness ==
    /\ Len(timestamps) = MaxKeys
    /\ elapsed > 0
    /\ keyframe = Len(timestamps) - 1

forward_of(cam) == vsub(cam.target, cam.eye)
distance(cam) == magnitude(forward_of(cam))

\* C11: with forward, backward, jump and mouse tracking inactive, for every
\* combination of the left and right flags the distance |target - eye| after
\* update_camera equals the distance before it.
C11_DistancePreserved ==
    [][(/\ last_call' = "update_camera"
        /\ ~controller.is_forward_pressed
        /\ ~controller.is_backward_pressed
        /\ ~controller.is_up_pressed
        /\ ~controller.is_mouse_right_tracked)
          => /\ dot(forward_of(camera'), forward_of(camera'))
                  = dot(forward_of(camera), forward_of(camera))
             /\ distance(camera') = distance(camera)]_vars

\* An update with only the left flag set has moved the target off its axis.
C11_Witness ==
    /\ last_call = "update_camera"
    /\ moved = {"left"}
    /\ camera.target[1] # 0

C13_NeverCrosses ==
    /\ [](dot(forward_of(camera), forward_of(camera)) > 0)
    /\ [][last_call' = "update_camera"
            => dot(forward_of(camera), forward_of(camera')) > 0]_vars

\* An update with the forward flag set that the guard kept from stepping.
C13_Witness ==
    /\ last_call = "update_camera"
    /\ controller.is_forward_pressed
    /\ moved = {}
    /\ distance(camera) <= controller.speed

\* C14: after a successful draw every uniform buffer the draw reads holds the
\* current value of its source: the global uniform buffer the camera's
\* view-projection, the local uniform buffer bound for the drawn node that
\* node's Locals.
C14_UniformsCurrent ==
    DrawSucceeded =>
        /\ uniforms[global_uniform_buffer].kind = "Globals"
        /\ uniforms[global_uniform_buffer].value = update_view_proj(camera)
        /\ \A key \in DOMAIN local_bind_groups :
              /\ uniforms[local_bind_groups[key].buffer].kind = "Locals"
              /\ uniforms[local_bind_groups[key].buffer].value = nodes[drawn].locals

\* C15: after a successful draw the pass holds one instance buffer per node,
\* the buffer of node i holds as many instances as node i has, and that is the
\* instance count of the node's indexed draws.
C15_InstanceBufferPerNode ==
    DrawSucceeded =>
        /\ Len(instance_buffers) = Len(nodes)
        /\ \A i \in DOMAIN nodes \cap DOMAIN instance_buffers :
              instance_buffers[i].len = nodes[i].instances
        /\ \A i \in DOMAIN commands :
              commands[i].op = "draw_indexed" =>
                  commands[i].instances = nodes[drawn].instances

\* C16: after alloc_buffers(count) the pool holds exactly count buffers, all
\* distinct and all created by this call: none was in the pool, or alive at
\* all, before the call.
C16_AllocReplaces ==
    [][last_call' = "alloc_buffers" =>
          /\ Len(buffers') = pool_call'.arg
          /\ Cardinality(Range(buffers')) = pool_call'.arg
          /\ Range(buffers') \cap Range(buffers) = {}
          /\ Range(buffers') \cap DOMAIN uniforms = {}
          /\ \A b \in Range(buffers') : uniforms'[b] = Zeroed
          /\ Range(buffers) \cap DOMAIN uniforms' = {}]_vars

\* A second allocation, on a pool that held a buffer.
C16_Witness ==
    /\ last_call = "alloc_buffers"
    /\ pool_call.arg = 1
    /\ buffers_created >= 2

\* C17: update_uniform(index, data) queues a write of data to the buffer at
\* position index when the pool has one there, queues no write otherwise, and
\* never fails.
C17_UpdateNeverFails ==
    last_call = "update_uniform" =>
        /\ pool_call.outcome = "Ok"
        /\ IF pool_call.arg < Len(buffers)
           THEN /\ pool_call.wrote = buffers[pool_call.arg + 1]
                /\ uniforms[pool_call.wrote] = Content("Locals", Locals(pool_call.data))
           ELSE pool_call.wrote = NoHandle

\* C18: the tracking flag is false whenever the right button is not pressed,
\* and an update_camera while the button is not pressed applies no mouse orbit.
C18_ReleaseStopsTracking ==
    ~controller.is_mouse_right_pressed =>
        /\ ~controller.is_mouse_right_tracked
        /\ last_call = "update_camera" => "mouse" \notin moved

C21_OnlyTranslationMoves ==
    [][/\ keyframes = "Translation" =>
            /\ nodes'[1].locals.position = <<timestamps[keyframe' + 1], 0, 0>>
            /\ nodes'[1].locals.color = nodes[1].locals.color
       /\ keyframes = "Other" => nodes'[1].locals = nodes[1].locals
       /\ \A k \in 2..Len(nodes) : nodes'[k] = nodes[k]
       /\ Len(nodes') = Len(nodes)]_vars

\* A clip of Other keyframes was sampled past its first keyframe and the
\* node still has the Locals it was built with, next to a node without clip.
C21_Witness ==
    /\ keyframes = "Other"
    /\ elapsed > 0
    /\ keyframe > 0
    /\ Len(nodes) = 2
    /\ nodes[1].locals = Locals(1)

\* The indexed draws among the recorded commands, in the order recorded.
IsDrawIndexed(c) == c.op = "draw_indexed"
DrawsIndexed == SelectSeq(commands, IsDrawIndexed)

\* C22: at every indexed draw of a successful draw, bind group slot 0 holds
\* the global bind group, slot 1 the local bind group of the node being drawn
\* (the one made over that node's diffuse texture), vertex slot 0 a mesh of
\* that node, vertex slot 1 that node's instance buffer, and the index buffer
\* is the drawn mesh's.
C22_BindingsAtDraw ==
    DrawSucceeded =>
        \A i \in DOMAIN commands :
            commands[i].op = "draw_indexed" =>
                /\ BoundAt("set_bind_group", 0, i) = global_bind_group
                /\ \E key \in DOMAIN local_bind_groups :
                      /\ local_bind_groups[key].handle = BoundAt("set_bind_group", 1, i)
                      /\ local_bind_groups[key].texture =
                            nodes[drawn].model.materials[1].diffuse_texture
                /\ \E mesh \in Range(nodes[drawn].model.meshes) :
                      /\ BoundAt("set_vertex_buffer", 0, i) = mesh.vertex_buffer
                      /\ BoundAt("set_index_buffer", 0, i) = mesh.index_buffer
                /\ drawn \in DOMAIN instance_buffers
                /\ BoundAt("set_vertex_buffer", 1, i) = instance_buffers[drawn].handle

\* The indexed draws of node k's model from mesh j on: one per mesh, over
\* indices 0..num_elements and the node's instance count.
RECURSIVE NodeDraws(_, _)
NodeDraws(k, j) ==
    IF j > Len(nodes[k].model.meshes) THEN << >>
    ELSE << [indices |-> nodes[k].model.meshes[j].num_elements,
             instances |-> nodes[k].instances] >> \o NodeDraws(k, j + 1)

\* The indexed draws of the node list from node k on, in list order.
RECURSIVE SceneDraws(_)
SceneDraws(k) ==
    IF k > Len(nodes) THEN << >> ELSE NodeDraws(k, 1) \o SceneDraws(k + 1)

\* C23: the indexed draws of a successful draw are those of the node list,
\* node by node in list order and mesh by mesh in mesh order, each over
\* indices 0..num_elements and instances 0..(the node's instance count).
C23_DrawsInListOrder ==
    DrawSucceeded =>
        /\ Len(DrawsIndexed) = Len(SceneDraws(1))
        /\ \A i \in DOMAIN DrawsIndexed \cap DOMAIN SceneDraws(1) :
              /\ DrawsIndexed[i].indices = SceneDraws(1)[i].indices
              /\ DrawsIndexed[i].instances = SceneDraws(1)[i].instances

\* C24: a draw that finds at least as many pool buffers as there are nodes
\* leaves the pool's buffer handles as they were.
C24_DrawKeepsPool ==
    [][(last_call' = "draw" /\ Len(buffers) >= Len(nodes)) => buffers' = buffers]_vars

\* A draw succeeded on a pool that alloc_buffers had filled with one buffer
\* per node.
C24_Witness ==
    /\ DrawSucceeded
    /\ pool_call.op = "alloc_buffers"
    /\ Len(nodes) = 2
    /\ Len(buffers) = Len(nodes)

\* The press flag process_events keeps for a key ("none": the key has none).
FlagOf(virtual_keycode) ==
    CASE virtual_keycode = "Space" -> "is_up_pressed"
      [] virtual_keycode = "LShift" -> "is_modifier_shift_pressed"
      [] virtual_keycode \in {"W", "Up"} -> "is_forward_pressed"
      [] virtual_keycode \in {"A", "Left"} -> "is_left_pressed"
      [] virtual_keycode \in {"S", "Down"} -> "is_backward_pressed"
      [] virtual_keycode \in {"D", "Right"} -> "is_right_pressed"
      [] OTHER -> "none"

\* C25: process_events sets the one press flag mapped to the event's key to
\* the event's state (true on a press, false on a release), leaves every
\* other field of the controller as it was and returns true; for a key with
\* no flag it returns false and changes nothing.  The flag of the last event's
\* key therefore holds that event's state.
C25_KeySetsItsFlag ==
    [][last_call' = "process_events" =>
          LET flag == FlagOf(key_event'.virtual_keycode)
          IN  IF flag = "none"
              THEN ~key_event'.returned /\ controller' = controller
              ELSE /\ key_event'.returned
                   /\ controller'[flag] = key_event'.is_pressed
                   /\ \A f \in DOMAIN controller \ {flag} :
                         controller'[f] = controller[f]]_vars

\* The left flag was set earlier and is still set after a release of W, the
\* last event, cleared the forward flag.
C25_Witness ==
    /\ key_event = KeyEvent("W", FALSE, TRUE)
    /\ controller.is_left_pressed
    /\ controller.is_up_pressed
    /\ ~controller.is_forward_pressed

\* C26: with the up flag set and mouse tracking inactive, update_camera
\* leaves eye and target displaced by the same vector from where the same
\* call leaves them with the up flag clear: by +up*speed without shift, by
\* -up*speed with shift, so that the eye-to-target distance is that of the
\* call without the jump; with the up flag clear the shift flag changes
\* neither eye nor target.
C26_JumpMovesBoth ==
    [][(last_call' = "update_camera" /\ ~controller.is_mouse_right_tracked) =>
          LET flat == update_camera([controller EXCEPT !.is_up_pressed = FALSE], camera)
              jump == IF controller.is_modifier_shift_pressed
                      THEN vmul(camera.up, 0 - controller.speed)
                      ELSE vmul(camera.up, controller.speed)
          IN  IF controller.is_up_pressed
              THEN /\ camera'.eye = vadd(flat.eye, jump)
                   /\ camera'.target = vadd(flat.target, jump)
                   /\ distance(camera') = distance(flat)
              ELSE camera' = update_camera(
                                [controller EXCEPT !.is_modifier_shift_pressed = ~@],
                                camera)]_vars

\* An update with the up and shift flags set has moved the target below its
\* plane.
C26_Witness ==
    /\ last_call = "update_camera"
    /\ moved = {"up"}
    /\ controller.is_modifier_shift_pressed
    /\ camera.target[2] < 0
    /\ camera.eye[2] = camera.target[2]

\* A frame has run and no redraw is requested yet.
FrameDone == last_call = "RedrawRequested" /\ ~redraw_requested

\* C27: unless exit is requested, every frame is eventually followed by
\* another draw attempt: RedrawEventsCleared leaves a redraw requested, after
\* a frame (also one that failed with Lost, Outdated or Timeout) a redraw is
\* eventually requested, a requested redraw is eventually attempted, a frame
\* that failed with OutOfMemory requests exit, and nothing runs after exit.
C27_FramesGoOn ==
    /\ [](last_call = "RedrawEventsCleared" => redraw_requested)
    /\ (FrameDone /\ result \in {"Ok", "Lost", "Outdated", "Timeout"})
          ~> (control_flow = "Exit" \/ redraw_requested)
    /\ (redraw_requested /\ control_flow = "Poll")
          ~> (control_flow = "Exit" \/ FrameDone)
    /\ []((FrameDone /\ result = "OutOfMemory") => control_flow = "Exit")
    /\ [][control_flow = "Poll"]_vars

\* A frame failed with Lost and the loop goes on.
C27_Witness ==
    /\ FrameDone
    /\ result = "Lost"
    /\ control_flow = "Poll"
    /\ configured

\* C28: every right-button press starts a fresh drag: the first mouse-move
\* after a press of the released button records its position as the drag's
\* initial position and so yields a zero drag delta, whatever came before
\* the press.
C28_PressStartsFreshDrag ==
    [][(fresh_press /\ last_call' = "process_mouse_moved") =>
          /\ controller'.is_mouse_right_tracked
          /\ controller'.mouse_diff_position = <<0, 0>>]_vars

\* C29: for sector_count >= 1 and stack_count >= 1, generate_sphere returns
\* (stack_count + 1) * (sector_count + 1) vertices and an index list whose
\* length is a multiple of 3 and whose every index is below the vertex count.
C29_IndicesInRange ==
    sphere.returned =>
        /\ Len(sphere.vertices) = (sphere.stack_count + 1) * (sphere.sector_count + 1)
        /\ Len(sphere.indices) % 3 = 0
        /\ \A n \in DOMAIN sphere.indices : sphere.indices[n] < Len(sphere.vertices)

\* The number of Mesh primitives among the paint jobs.
MeshJobs == {n \in DOMAIN egui.paint_jobs : egui.paint_jobs[n].primitive = "Mesh"}

\* C30: render pairs the k-th Mesh primitive with the k-th vertex slice and
\* the k-th index slice: when it returns, every Mesh primitive, drawn or
\* skipped, has consumed one slice of each list and callbacks none, and the
\* pipeline and bind group 0 are set again before the first primitive
\* processed after a paint callback ran.
C30_MeshTakesItsSlices ==
    egui.rendered =>
        /\ ~egui.panicked
        /\ egui.index_taken = Cardinality(MeshJobs)
        /\ egui.vertex_taken = Cardinality(MeshJobs)
        /\ \A i \in DOMAIN egui.commands :
              egui.commands[i].op = "paint" =>
                  \/ egui.commands[i].job = Len(egui.paint_jobs)
                  \/ /\ i + 3 \in DOMAIN egui.commands
                     /\ egui.commands[i + 1].op = "set_viewport"
                     /\ egui.commands[i + 2].op = "set_pipeline"
                     /\ egui.commands[i + 3].op = "set_bind_group_0"
                     /\ egui.commands[i + 1].job = egui.commands[i].job + 1
==============================================================================
